---- MODULE Spec2Model ----
(***************************************************************************)
(* Model of the HTTP transport of the add service                          *)
(* (internal/app/add/transports/http.go, internal/pkg/responses).          *)
(*                                                                         *)
(* Server side: the bone router of NewHTTPHandler, the go-kit server       *)
(* pipeline (before -> decode -> endpoint -> encode, each failure handed   *)
(* to the error encoder), decodeHTTPSumRequest / decodeHTTPConcatRequest,  *)
(* encodeJSONResponse and httpEncodeError writing to an                    *)
(* http.ResponseWriter.                                                    *)
(* Client side: NewHTTPClient, copyURL, decodeHTTPSumResponse /            *)
(* decodeHTTPConcatResponse and JSONErrorDecoder.                          *)
(*                                                                         *)
(* Strings that the code inspects are sequences of tokens, so that         *)
(* strings.HasPrefix, strings.Contains and the JSON decoder are computed   *)
(* and not assumed:                                                        *)
(*   request body tokens   "{"  "}"  ","  " "  "@" (a byte that is valid   *)
(*                         nowhere in JSON), "num" (the member "a":1) and  *)
(*                         "str" (the member "a":"x")                      *)
(*   instance tokens       "http" "s" "://" "localhost" "bin.org" ":80"    *)
(*                         "DEL" (the control byte 0x7f)                   *)
(*   content types         <<"application/json">>,                         *)
(*                         <<"application/json", "; charset=utf-8">>, ...  *)
(*   paths                 sequences of segments, <<"api","add","sum">>    *)
(***************************************************************************)
EXTENDS Integers, Sequences, FiniteSets, TLC

\* Longest request body, in tokens.
MaxBody == 3
\* Most sub-errors a domain error carries.
MaxSubs == 2

\* net/http status codes the source names.
StatusOK == 200
StatusNoContent == 204
StatusBadRequest == 400
StatusUnauthorized == 401
StatusInternalServerError == 500

Ops == {"sum", "concat"}

\* const contentType
contentType == <<"application/json">>
\* the literal encodeJSONResponse sets
successContentType == <<"application/json", "; charset=utf-8">>
plainContentType == <<"text/plain", "; charset=utf-8">>

(***************************************************************************)
(* Error values.  kind is the dynamic type / identity the type switches    *)
(* of httpEncodeError look at; grpc says whether status.FromError finds an *)
(* RPC status in the value, code and text are then s.Code() and            *)
(* s.Message().  For kind "domain" text is Msg() and subs is Errors(); for *)
(* the others text is Error().                                             *)
(***************************************************************************)
Msgs == {"", "boom", "bad input"}
SubMsgs == {"e1", "e2"}
RPCCodes == {"InvalidArgument", "NotFound", "PermissionDenied", "Unauthenticated",
             "Internal", "Unknown", "Code(99)"}

SeqsUpTo(S, n) == UNION {[1..k -> S] : k \in 0..n}

SubErrs == SeqsUpTo([message : SubMsgs], MaxSubs)

NoErr == [kind |-> "nil", grpc |-> FALSE, code |-> "", text |-> "", subs |-> <<>>]

PlainErr(kind, text) == [kind |-> kind, grpc |-> FALSE, code |-> "", text |-> text, subs |-> <<>>]

ErrEOF == PlainErr("io.EOF", "EOF")
ErrUnexpectedEOF == PlainErr("io.ErrUnexpectedEOF", "unexpected EOF")
ErrTokenContextMissing ==
    PlainErr("kitjwt.ErrTokenContextMissing", "token up for parsing was not passed through the context")
ErrSyntax == PlainErr("*json.SyntaxError", "invalid character")
ErrUnmarshalType == PlainErr("*json.UnmarshalTypeError", "json: cannot unmarshal")
ErrUnsupported == PlainErr("*json.UnsupportedTypeError", "json: unsupported type")

DomainErr(text, subs) == [kind |-> "domain", grpc |-> FALSE, code |-> "", text |-> text, subs |-> subs]

\* errors.New(text) of internal/pkg/errors: a domain error carrying the message.
ErrorsNew(text) == DomainErr(text, <<>>)

StatusErr(kind, code, text, subs) == [kind |-> kind, grpc |-> TRUE, code |-> code, text |-> text, subs |-> subs]

\* Every error an endpoint may hand back.
EndpointErrs ==
    {DomainErr(m, s) : m \in Msgs, s \in SubErrs}
    \cup {PlainErr("other", m) : m \in Msgs}
    \cup {StatusErr("other", c, m, <<>>) : c \in RPCCodes, m \in Msgs}
    \cup {StatusErr("domain", c, "boom", <<[message |-> "e1"]>>) : c \in RPCCodes}
    \cup {ErrEOF, ErrUnexpectedEOF, ErrTokenContextMissing, ErrSyntax, ErrUnmarshalType}

(***************************************************************************)
(* http.ResponseWriter.  header is the live header map; sent is the copy   *)
(* that went out with the status line; body is what was written after it.  *)
(***************************************************************************)
NewWriter == [wroteHeader |-> FALSE, status |-> 0, header |-> [ct |-> <<>>, extra |-> {}],
              sent |-> [ct |-> <<>>, extra |-> {}], body |-> <<>>]

HeaderSet(w, ct) == [w EXCEPT !.header.ct = ct]

HeaderAdd(w, names) == [w EXCEPT !.header.extra = @ \cup names]

\* A second WriteHeader is ignored by net/http ("superfluous WriteHeader").
WriteHeader(w, code) ==
    IF w.wroteHeader THEN w
    ELSE [w EXCEPT !.wroteHeader = TRUE, !.status = code, !.sent = w.header]

BodyAllowed(status) == status >= 200 /\ status # 204 /\ status # 304

\* Write sends an implicit 200 first; <<w', ok>>.
Write(w, chunk) ==
    LET w1 == WriteHeader(w, StatusOK)
    IN  IF BodyAllowed(w1.status) THEN <<[w1 EXCEPT !.body = Append(@, chunk)], TRUE>>
        ELSE <<w1, FALSE>>

\* json.NewEncoder(w).Encode(v): marshal first, write only what marshalled.
\* <<w', error>>
Encode(w, chunk, marshalable) ==
    IF ~marshalable THEN <<w, ErrUnsupported>>
    ELSE LET r == Write(w, chunk)
         IN  <<r[1], IF r[2] THEN NoErr ELSE PlainErr("other", "http: request method or response status code does not allow body")>>

(***************************************************************************)
(* The error translator.                                                   *)
(***************************************************************************)
\* errors.FromError: the generic error-string parser; a single entry whose
\* message is the string.
FromError(s) == <<[message |-> s]>>

\* The fixed RPC-code table; codes outside it give 500.
HTTPStatusFromCode(c) ==
    CASE c = "InvalidArgument" -> 400
      [] c = "NotFound" -> 404
      [] c = "PermissionDenied" -> 403
      [] c = "Unauthenticated" -> 401
      [] c = "Internal" -> 500
      [] c = "Unknown" -> 500
      [] OTHER -> 500

TransportStatusNoEOF(err) ==
    CASE err.kind = "io.ErrUnexpectedEOF" -> StatusBadRequest
      [] err.kind = "kitjwt.ErrTokenContextMissing" -> StatusUnauthorized
      [] err.kind \in {"*json.SyntaxError", "*json.UnmarshalTypeError"} -> StatusBadRequest
      [] OTHER -> StatusInternalServerError

TransportStatusNoToken(err) ==
    CASE err.kind \in {"io.ErrUnexpectedEOF", "io.EOF"} -> StatusBadRequest
      [] err.kind \in {"*json.SyntaxError", "*json.UnmarshalTypeError"} -> StatusBadRequest
      [] OTHER -> StatusInternalServerError

\* switch err { case io.ErrUnexpectedEOF, io.EOF: ... case kitjwt.ErrTokenContextMissing: ...
\* default: switch err.(type) { case *json.SyntaxError, *json.UnmarshalTypeError: ... } }
TransportStatus(err) ==
    CASE err.kind \in {"io.ErrUnexpectedEOF", "io.EOF"} -> StatusBadRequest
      [] err.kind = "kitjwt.ErrTokenContextMissing" -> StatusUnauthorized
      [] err.kind \in {"*json.SyntaxError", "*json.UnmarshalTypeError"} -> StatusBadRequest
      [] OTHER -> StatusInternalServerError

\* default arm of the type switch: any error that is not an errors.Error
TransportTranslation(err) ==
    LET errs == FromError(err.text)
    IN  [code |-> TransportStatus(err), message |-> errs[1].message, errs |-> errs]

DomainTranslationParsed(err) ==
    LET errs == FromError(err.text)
    IN  [code |-> StatusInternalServerError, message |-> errs[1].message, errs |-> errs]

\* case errors.Error: no override rule; message and errs stay zero unless Msg() is non-empty
DomainTranslation(err) ==
    IF err.text # ""
    THEN [code |-> StatusInternalServerError, message |-> err.text, errs |-> err.subs]
    ELSE [code |-> StatusInternalServerError, message |-> "", errs |-> <<>>]

\* else arm of status.FromError: the error carries an RPC status
RPCTranslation(err) ==
    LET errs == FromError(err.text)
    IN  [code |-> HTTPStatusFromCode(err.code), message |-> errs[1].message, errs |-> errs]

TranslateDomainFirst(err) ==
    IF err.kind = "domain" THEN DomainTranslation(err)
    ELSE IF err.grpc THEN RPCTranslation(err)
    ELSE TransportTranslation(err)

\* The decision of httpEncodeError: status.FromError first, then the type switch.
Translate(err) ==
    IF ~err.grpc
    THEN IF err.kind = "domain" THEN DomainTranslation(err) ELSE TransportTranslation(err)
    ELSE RPCTranslation(err)

\* What is written to a response body, one JSON value (or non-JSON text) per chunk.
\* type "payload": a success value of operation op, as = "response" or "Response()";
\* type "envelope": responses.ErrorRes; type "wrapper": {"error": "<message>"};
\* type "text": not JSON.
Chunk(type, op, as, code, message, errs) ==
    [type |-> type, op |-> op, as |-> as, code |-> code, message |-> message, errs |-> errs]

\* responses.ErrorRes{responses.ErrorResItem{code, message, errs}}
ErrorRes(t) == Chunk("envelope", "", "", t.code, t.message, t.errs)

\* httpEncodeError as a whole: Content-Type, status line, envelope.  The result of
\* Encode is dropped, as in the source.
httpEncodeError(w, err) ==
    LET t == Translate(err)
        w1 == HeaderSet(w, contentType)
        w2 == WriteHeader(w1, t.code)
    IN  Encode(w2, ErrorRes(t), TRUE)[1]

(***************************************************************************)
(* Server side request decoding: json.NewDecoder(r.Body).Decode(&req).     *)
(* The decoder first scans one complete JSON value (syntax errors and      *)
(* end of input are found there), then unmarshals it into the request      *)
(* struct (type mismatches are found there).  Input after the value is not *)
(* read.                                                                   *)
(***************************************************************************)
BodyTokens == {"{", "}", ",", " ", "@", "num", "str"}
Members == {"num", "str"}

RECURSIVE Scan(_, _, _, _)
\* st: "start" before the value, "first" after '{', "after" after a member,
\* "need" after ','.  members: the kinds of the members read so far.
\* Result: <<"eof">>, <<"unexpectedEOF">>, <<"syntax">>, <<"string">> (a top-level
\* string) or <<"object", members>>.
Scan(body, i, st, members) ==
    IF i > Len(body)
    THEN IF st = "start" THEN <<"eof">> ELSE <<"unexpectedEOF">>
    ELSE LET c == body[i]
         IN  IF c = " " THEN Scan(body, i + 1, st, members)
             ELSE CASE st = "start" ->
                         IF c = "{" THEN Scan(body, i + 1, "first", members)
                         ELSE IF c \in Members THEN <<"string">>
                         ELSE <<"syntax">>
                    [] st = "first" ->
                         IF c = "}" THEN <<"object", members>>
                         ELSE IF c \in Members THEN Scan(body, i + 1, "after", members \cup {c})
                         ELSE <<"syntax">>
                    [] st = "after" ->
                         IF c = "}" THEN <<"object", members>>
                         ELSE IF c = "," THEN Scan(body, i + 1, "need", members)
                         ELSE <<"syntax">>
                    [] st = "need" ->
                         IF c \in Members THEN Scan(body, i + 1, "after", members \cup {c})
                         ELSE <<"syntax">>

\* The member kind the request struct of an operation takes: SumRequest has
\* numeric operands, ConcatRequest has string operands.
FieldKind(op) == IF op = "sum" THEN "num" ELSE "str"

\* decodeHTTPSumRequest / decodeHTTPConcatRequest: the error returned (NoErr on success).
decodeHTTPRequest(op, body) ==
    LET r == Scan(body, 1, "start", {})
    IN  CASE r[1] = "eof" -> ErrEOF
          [] r[1] = "unexpectedEOF" -> ErrUnexpectedEOF
          [] r[1] = "syntax" -> ErrSyntax
          [] r[1] = "string" -> ErrUnmarshalType
          [] OTHER -> IF r[2] \subseteq {FieldKind(op)} THEN NoErr ELSE ErrUnmarshalType

(***************************************************************************)
(* Server side response encoding.                                          *)
(***************************************************************************)
\* What an endpoint may return on success.  statusCoder = 0: the value is no
\* httptransport.StatusCoder; headerer: it is a httptransport.Headerer;
\* responser: it is a responses.Responser; marshalable: json.Marshal accepts
\* the value that gets encoded.
Responses(op) ==
    [op : {op}, statusCoder : {0, 201, StatusNoContent}, headerer : BOOLEAN,
     responser : BOOLEAN, marshalable : BOOLEAN]

NoResponse == [op |-> "", statusCoder |-> 0, headerer |-> FALSE, responser |-> FALSE, marshalable |-> TRUE]

\* <<w', error>>
encodeJSONResponse(w, response) ==
    LET w1 == HeaderSet(w, successContentType)
        w2 == IF response.headerer THEN HeaderAdd(w1, {"X-Extra"}) ELSE w1
        code == IF response.statusCoder # 0 THEN response.statusCoder ELSE StatusOK
        w3 == WriteHeader(w2, code)
    IN  IF code = StatusNoContent THEN <<w3, NoErr>>
        ELSE IF response.responser
             THEN Encode(w3, Chunk("payload", response.op, "Response()", 0, "", <<>>), response.marshalable)
             ELSE Encode(w3, Chunk("payload", response.op, "response", 0, "", <<>>), response.marshalable)

(***************************************************************************)
(* Routing table of NewHTTPHandler.                                        *)
(***************************************************************************)
Routes == {<<"POST", <<"api", "add", "sum">>, "sum">>,
           <<"POST", <<"api", "add", "concat">>, "concat">>,
           <<"GET", <<"metrics">>, "metrics">>}

\* The handler bone serves the request with: the route bound to the method and
\* path; "405" when the path is bound for another method only; "404" otherwise.
Route(method, path) ==
    IF \E r \in Routes : r[1] = method /\ r[2] = path
    THEN (CHOOSE r \in Routes : r[1] = method /\ r[2] = path)[3]
    ELSE IF \E r \in Routes : r[2] = path THEN "405" ELSE "404"

\* kitjwt.HTTPToContext: the context gets a token iff the Authorization header
\* is a bearer credential.
HTTPToContext(auth) == auth = "bearer"

(***************************************************************************)
(* Client side.                                                            *)
(***************************************************************************)
HasPrefixHTTP(instance) == Len(instance) > 0 /\ instance[1] = "http"

\* url.Parse fails on a control byte anywhere in the string.
ParseFails(raw) == \E i \in 1..Len(raw) : raw[i] = "DEL"

NoClient == [instance |-> <<>>, raw |-> <<>>, err |-> FALSE, built |-> FALSE]

\* NewHTTPClient up to the return of url.Parse: raw is the string handed to
\* url.Parse, err whether a construction error (and no service) is returned.
NewHTTPClientURL(instance) ==
    LET raw == IF ~HasPrefixHTTP(instance) THEN <<"http", "://">> \o instance ELSE instance
    IN  [instance |-> instance, raw |-> raw, err |-> ParseFails(raw), built |-> ~ParseFails(raw)]

\* The scheme url.Parse finds: the text before the first colon.  "opaque"
\* stands for a host name taken as scheme ("httpbin.org:80" parses as scheme
\* "httpbin.org", opaque "80"); "" for a string without colon, which parses as
\* a path.
URLScheme(raw) ==
    IF Len(raw) >= 2 /\ raw[1] = "http" /\ raw[2] = "://" THEN "http"
    ELSE IF Len(raw) >= 3 /\ raw[1] = "http" /\ raw[2] = "s" /\ raw[3] = "://" THEN "https"
    ELSE IF \E i \in 1..Len(raw) : raw[i] \in {"://", ":80"} THEN "opaque"
    ELSE ""

\* copyURL(u, path): the base URL with its path replaced.
copyURL(u, path) == [base |-> u, scheme |-> URLScheme(u), path |-> path]

\* http.Client.Do sends a request only to an http or https URL.
SupportedScheme(scheme) == scheme \in {"http", "https"}

ErrUnsupportedScheme == PlainErr("other", "unsupported protocol scheme")

\* The method and URL httptransport.NewClient is given for each operation.
ClientEndpoint(u, op) ==
    IF op = "sum" THEN [method |-> "POST", url |-> copyURL(u, <<"sum">>)]
    ELSE [method |-> "POST", url |-> copyURL(u, <<"concat">>)]

\* encodeHTTPSumRequest / encodeHTTPConcatRequest: the JSON of the request struct.
encodeHTTPRequest(op) == <<"{", FieldKind(op), ",", FieldKind(op), "}">>

Contains(ct, tok) == \E i \in 1..Len(ct) : ct[i] = tok

\* json.NewDecoder(r.Body).Decode(&w) for responses.ErrorWrapper, whose only
\* field is Error string `json:"error"`: <<w.Error, error>>
DecodeErrorWrapper(body) ==
    IF body = <<>> THEN <<"", ErrEOF>>
    ELSE LET c == body[1]
         IN  CASE c.type = "text" -> <<"", ErrSyntax>>
               [] c.type = "envelope" -> <<"", ErrUnmarshalType>>
               [] c.type = "wrapper" -> <<c.message, NoErr>>
               [] OTHER -> <<"", NoErr>>

JSONErrorDecoder(r) ==
    IF ~Contains(r.ct, "application/json")
    THEN PlainErr("other", "expected JSON formatted error")
    ELSE LET d == DecodeErrorWrapper(r.body)
         IN  IF d[2] # NoErr THEN d[2] ELSE ErrorsNew(d[1])

\* json.NewDecoder(r.Body).Decode(&resp) for the typed response of op:
\* <<value, error>>; value "typed" is the decoded payload, "zero" a response
\* whose fields stayed zero.
DecodeTyped(op, body) ==
    IF body = <<>> THEN <<"zero", ErrEOF>>
    ELSE LET c == body[1]
         IN  CASE c.type = "text" -> <<"zero", ErrSyntax>>
               [] c.type = "payload" /\ c.op = op -> <<"typed", NoErr>>
               [] c.type = "payload" /\ c.op # op /\ c.as = "response" -> <<"zero", ErrUnmarshalType>>
               [] OTHER -> <<"zero", NoErr>>

decodeHTTPResponse2xx(op, r) ==
    IF r.status < 200 \/ r.status >= 300 THEN <<"nil", JSONErrorDecoder(r)>>
    ELSE DecodeTyped(op, r.body)

\* decodeHTTPSumResponse / decodeHTTPConcatResponse: <<value, error>>
decodeHTTPResponse(op, r) ==
    IF r.status # StatusOK THEN <<"nil", JSONErrorDecoder(r)>>
    ELSE DecodeTyped(op, r.body)

(***************************************************************************)
(* The state machine: one exchange at a time.  A request reaches the       *)
(* server either from any HTTP client (ExternalRequest) or from a service  *)
(* built by NewHTTPClient (ClientCall); the server's answer, or the answer *)
(* of some other remote instance (RemoteReply), is what the client         *)
(* decoders are applied to.                                                *)
(***************************************************************************)
VARIABLES
    protected,      \* the endpoints handed to NewHTTPHandler require a token in the context
    pc,             \* position of the exchange
    client,         \* what NewHTTPClient made of its instance string
    call,           \* the operation a client call is about, "" if none
    sreq,           \* the request the server is serving
    route,          \* the handler the router chose
    ctxToken,       \* the request context carries a token
    response,       \* the value the endpoint returned
    stage,          \* the stage that failed: "none", "decode", "endpoint", "encode"
    err,            \* the error handed to httpEncodeError
    nEncodeError,   \* calls of httpEncodeError for this request
    dirty,          \* the writer had been written to when httpEncodeError was called
    w,              \* the server's http.ResponseWriter
    resp,           \* the http.Response the client decoder is given
    cres            \* result of the client decoder: <<value, error>>

vars == <<protected, pc, client, call, sreq, route, ctxToken, response, stage, err,
          nEncodeError, dirty, w, resp, cres>>

Methods == {"POST", "GET"}
Paths == {<<"api", "add", "sum">>, <<"api", "add", "concat">>, <<"metrics">>,
          <<"sum">>, <<"api", "add", "Sum">>}
Auths == {"none", "bearer", "basic"}
Bodies == SeqsUpTo(BodyTokens, MaxBody)

\* Instance strings: an optional scheme, a host, an optional port, and
\* optionally a trailing control byte.
Instances ==
    {sc \o h \o p \o t : sc \in {<<>>, <<"http", "://">>, <<"http", "s", "://">>},
                         h \in {<<"localhost">>, <<"http", "bin.org">>},
                         p \in {<<>>, <<":80">>},
                         t \in {<<>>, <<"DEL">>}}

\* Responses of a remote instance that need not be this server.
RemoteStatuses == {StatusOK, 201, StatusNoContent, 302, StatusBadRequest, StatusInternalServerError}
RemoteTypes == {contentType, successContentType, plainContentType, <<>>}
RemoteBodies ==
    {<<>>, <<Chunk("text", "", "", 0, "", <<>>)>>,
     <<Chunk("payload", "sum", "response", 0, "", <<>>)>>,
     <<Chunk("payload", "concat", "response", 0, "", <<>>)>>,
     <<Chunk("wrapper", "", "", 0, "boom", <<>>)>>,
     <<Chunk("envelope", "", "", StatusBadRequest, "boom", <<[message |-> "boom"]>>)>>}

NoReq == [method |-> "", path |-> <<>>, body |-> <<>>, auth |-> "none"]
NoResp == [status |-> 0, ct |-> <<>>, body |-> <<>>, from |-> ""]
NoResult == <<"", NoErr>>

Init ==
    /\ protected \in BOOLEAN
    /\ pc = "idle"
    /\ client = NoClient
    /\ call = ""
    /\ sreq = NoReq
    /\ route = ""
    /\ ctxToken = FALSE
    /\ response = NoResponse
    /\ stage = "none"
    /\ err = NoErr
    /\ nEncodeError = 0
    /\ dirty = FALSE
    /\ w = NewWriter
    /\ resp = NoResp
    /\ cres = NoResult

\* Any HTTP client sends a request to the server.
ExternalRequest ==
    /\ pc = "idle"
    /\ \E m \in Methods, p \in Paths, b \in Bodies, a \in Auths :
         sreq' = [method |-> m, path |-> p, body |-> b, auth |-> a]
    /\ pc' = "request"
    /\ UNCHANGED <<protected, client, call, route, ctxToken, response, stage, err,
                   nEncodeError, dirty, w, resp, cres>>

\* NewHTTPClient(instance, ...)
NewHTTPClient ==
    /\ pc = "idle"
    /\ \E i \in Instances : client' = NewHTTPClientURL(i)
    /\ pc' = IF client'.err THEN "noclient" ELSE "built"
    /\ UNCHANGED <<protected, call, sreq, route, ctxToken, response, stage, err,
                   nEncodeError, dirty, w, resp, cres>>

\* A call of Sum or Concat on the service NewHTTPClient returned: the request
\* httptransport.Client builds and sends.  The client sends no credential.
ClientCall ==
    /\ pc = "built"
    /\ \E op \in Ops :
         LET e == ClientEndpoint(client.raw, op)
         IN  /\ SupportedScheme(e.url.scheme)
             /\ call' = op
             /\ sreq' = [method |-> e.method, path |-> e.url.path,
                         body |-> encodeHTTPRequest(op), auth |-> "none"]
    /\ pc' = "request"
    /\ UNCHANGED <<protected, client, route, ctxToken, response, stage, err,
                   nEncodeError, dirty, w, resp, cres>>

\* A call on a service whose URL has no http or https scheme: http.Client.Do
\* fails, nothing is sent, and the call returns that error.
ClientCallFails ==
    /\ pc = "built"
    /\ \E op \in Ops :
         LET e == ClientEndpoint(client.raw, op)
         IN  /\ ~SupportedScheme(e.url.scheme)
             /\ call' = op
             /\ cres' = <<"nil", ErrUnsupportedScheme>>
    /\ pc' = "callfailed"
    /\ UNCHANGED <<protected, client, sreq, route, ctxToken, response, stage, err,
                   nEncodeError, dirty, w, resp>>

\* The router picks the handler; for the two operations the go-kit server
\* starts and runs its ServerBefore function.
ServeRoute ==
    /\ pc = "request"
    /\ route' = Route(sreq.method, sreq.path)
    /\ route' \in Ops
    /\ ctxToken' = HTTPToContext(sreq.auth)
    /\ pc' = "decode"
    /\ UNCHANGED <<protected, client, call, sreq, response, stage, err,
                   nEncodeError, dirty, w, resp, cres>>

\* Requests the router does not hand to an operation: the metrics handler,
\* 405 for a path bound to another method, 404 for an unknown path.
ServeOther ==
    /\ pc = "request"
    /\ route' = Route(sreq.method, sreq.path)
    /\ route' \notin Ops
    /\ w' = CASE route' = "metrics" ->
                   Write(HeaderSet(w, plainContentType), Chunk("text", "", "", 0, "", <<>>))[1]
              [] route' = "405" -> WriteHeader(w, 405)
              [] OTHER ->
                   Write(WriteHeader(HeaderSet(w, plainContentType), 404),
                         Chunk("text", "", "", 0, "", <<>>))[1]
    /\ pc' = "done"
    /\ UNCHANGED <<protected, client, call, sreq, ctxToken, response, stage, err,
                   nEncodeError, dirty, resp, cres>>

\* The server's error path: the error encoder is called with the writer as it is.
Fail(st, e) ==
    /\ stage' = st
    /\ err' = e
    /\ nEncodeError' = nEncodeError + 1
    /\ dirty' = (w.wroteHeader \/ w.body # <<>>)
    /\ w' = httpEncodeError(w, e)
    /\ pc' = "done"

\* dec(ctx, r) succeeds.
DecodeOk ==
    /\ pc = "decode"
    /\ decodeHTTPRequest(route, sreq.body) = NoErr
    /\ pc' = "endpoint"
    /\ UNCHANGED <<protected, client, call, sreq, route, ctxToken, response, stage, err,
                   nEncodeError, dirty, w, resp, cres>>

\* dec(ctx, r) fails: errorEncoder, return.
DecodeFails ==
    /\ pc = "decode"
    /\ decodeHTTPRequest(route, sreq.body) # NoErr
    /\ Fail("decode", decodeHTTPRequest(route, sreq.body))
    /\ UNCHANGED <<protected, client, call, sreq, route, ctxToken, response, resp, cres>>

\* The errors the endpoint may return: when it requires a token and the
\* context has none, the missing-token error and nothing else.
EndpointErrors == IF protected /\ ~ctxToken THEN {ErrTokenContextMissing} ELSE EndpointErrs

\* The endpoint returns a response.
EndpointReturns ==
    /\ pc = "endpoint"
    /\ ~(protected /\ ~ctxToken)
    /\ response' \in Responses(route)
    /\ pc' = "encode"
    /\ UNCHANGED <<protected, client, call, sreq, route, ctxToken, stage, err,
                   nEncodeError, dirty, w, resp, cres>>

\* The endpoint returns an error: errorEncoder, return.
EndpointFails ==
    /\ pc = "endpoint"
    /\ \E e \in EndpointErrors : Fail("endpoint", e)
    /\ UNCHANGED <<protected, client, call, sreq, route, ctxToken, response, resp, cres>>

\* enc(ctx, w, response) succeeds.
EncodeOk ==
    /\ pc = "encode"
    /\ encodeJSONResponse(w, response)[2] = NoErr
    /\ w' = encodeJSONResponse(w, response)[1]
    /\ pc' = "done"
    /\ UNCHANGED <<protected, client, call, sreq, route, ctxToken, response, stage, err,
                   nEncodeError, dirty, resp, cres>>

\* enc(ctx, w, response) fails after what it wrote: errorEncoder on the same writer.
EncodeFails ==
    /\ pc = "encode"
    /\ encodeJSONResponse(w, response)[2] # NoErr
    /\ LET r == encodeJSONResponse(w, response)
       IN  /\ stage' = "encode"
           /\ err' = r[2]
           /\ nEncodeError' = nEncodeError + 1
           /\ dirty' = (r[1].wroteHeader \/ r[1].body # <<>>)
           /\ w' = httpEncodeError(r[1], r[2])
           /\ pc' = "done"
    /\ UNCHANGED <<protected, client, call, sreq, route, ctxToken, response, resp, cres>>

\* The server's answer travels to the caller: status line, the headers sent
\* with it, and the body.
ServerReply ==
    /\ pc = "done"
    /\ resp' = [status |-> w.status, ct |-> w.sent.ct, body |-> w.body, from |-> "server"]
    /\ pc' = "reply"
    /\ UNCHANGED <<protected, client, call, sreq, route, ctxToken, response, stage, err,
                   nEncodeError, dirty, w, cres>>

\* Some remote instance answers a client call.
RemoteReply ==
    /\ pc = "idle"
    /\ \E st \in RemoteStatuses, ct \in RemoteTypes, b \in RemoteBodies :
         resp' = [status |-> st, ct |-> ct, body |-> b, from |-> "remote"]
    /\ \E op \in Ops : call' = op
    /\ pc' = "reply"
    /\ UNCHANGED <<protected, client, sreq, route, ctxToken, response, stage, err,
                   nEncodeError, dirty, w, cres>>

\* The operation whose decoder reads the reply: the one the client called, or,
\* for a request that came from elsewhere, the one the server served.
ReplyOps == IF call # "" THEN {call} ELSE IF route \in Ops THEN {route} ELSE Ops

\* decodeHTTPSumResponse / decodeHTTPConcatResponse on the reply.
ClientDecode ==
    /\ pc = "reply"
    /\ \E op \in ReplyOps :
         /\ call' = op
         /\ cres' = decodeHTTPResponse(op, resp)
    /\ pc' = "decoded"
    /\ UNCHANGED <<protected, client, sreq, route, ctxToken, response, stage, err,
                   nEncodeError, dirty, w, resp>>

\* The exchange is over; the next one starts from scratch.
Reset ==
    /\ pc \in {"decoded", "noclient", "callfailed"}
    /\ pc' = "idle"
    /\ client' = NoClient
    /\ call' = ""
    /\ sreq' = NoReq
    /\ route' = ""
    /\ ctxToken' = FALSE
    /\ response' = NoResponse
    /\ stage' = "none"
    /\ err' = NoErr
    /\ nEncodeError' = 0
    /\ dirty' = FALSE
    /\ w' = NewWriter
    /\ resp' = NoResp
    /\ cres' = NoResult
    /\ UNCHANGED protected

Next ==
    \/ ExternalRequest
    \/ NewHTTPClient
    \/ ClientCall
    \/ ClientCallFails
    \/ ServeRoute
    \/ ServeOther
    \/ DecodeOk
    \/ DecodeFails
    \/ EndpointReturns
    \/ EndpointFails
    \/ EncodeOk
    \/ EncodeFails
    \/ ServerReply
    \/ RemoteReply
    \/ ClientDecode
    \/ Reset

Spec == Init /\ [][Next]_vars

(***************************************************************************)
(* Properties.                                                             *)
(***************************************************************************)
Is2xx(st) == st >= 200 /\ st < 300

ServedOp == pc = "done" /\ route \in Ops

\* C1: every request served on the two operation routes ends with either a
\* success payload (status 200 or the response's own status) or exactly one
\* ErrorRes envelope with a non-2xx status; on failure nothing is written
\* before httpEncodeError runs, and it runs exactly once.
C1_OneResponsePerRequest ==
    ServedOp =>
        \/ /\ stage = "none"
           /\ nEncodeError = 0
           /\ w.wroteHeader
           /\ w.status = (IF response.statusCoder # 0 THEN response.statusCoder ELSE StatusOK)
           /\ \/ Len(w.body) = 1 /\ w.body[1].type = "payload"
              \/ w.status = StatusNoContent /\ w.body = <<>>
        \/ /\ stage # "none"
           /\ nEncodeError = 1
           /\ ~dirty
           /\ Len(w.body) = 1 /\ w.body[1].type = "envelope"
           /\ ~Is2xx(w.status)

\* C2: for every error handed to httpEncodeError the errors sequence of the
\* emitted envelope is non-empty, and an error without structured detail
\* gives a single entry made from the top-level message.
C2_ErrorsNeverEmpty ==
    (pc = "done" /\ nEncodeError > 0) =>
        \A i \in 1..Len(w.body) :
            w.body[i].type = "envelope" =>
                /\ w.body[i].errs # <<>>
                /\ err.subs = <<>> => w.body[i].errs = <<[message |-> w.body[i].message]>>

\* C3: a request body that fails to decode (syntax error, type mismatch,
\* empty, truncated) is answered with status 400 and an envelope whose code
\* is 400 and whose errors sequence is non-empty.
C3_MalformedBodyIs400 ==
    (ServedOp /\ stage = "decode") =>
        /\ err.kind \in {"*json.SyntaxError", "*json.UnmarshalTypeError", "io.EOF", "io.ErrUnexpectedEOF"}
        /\ w.status = 400
        /\ w.sent.ct = contentType
        /\ Len(w.body) = 1
        /\ w.body[1].type = "envelope"
        /\ w.body[1].code = 400
        /\ w.body[1].errs # <<>>

\* C3 witness: a type mismatch in the body of a sum request was answered.
C3_Witness ==
    /\ ServedOp /\ stage = "decode" /\ route = "sum"
    /\ sreq.body = <<"{", "str", "}">>
    /\ err = ErrUnmarshalType
    /\ w.status = 400

NoBearer == sreq.auth # "bearer"

\* C4 as stated: every request to an operation route that carries no bearer
\* token, where the endpoint requires one, is answered with 401.
C4_MissingTokenIs401 ==
    (ServedOp /\ protected /\ NoBearer) => w.status = 401

\* C4 amended: such a request whose body decodes is answered with 401, through
\* the missing-token error of the endpoint stage; a body that does not decode
\* is answered by the decode error first.
C4_MissingTokenIs401WhenBodyDecodes ==
    (ServedOp /\ protected /\ NoBearer) =>
        IF decodeHTTPRequest(route, sreq.body) = NoErr
        THEN /\ ~ctxToken
             /\ stage = "endpoint"
             /\ err = ErrTokenContextMissing
             /\ nEncodeError = 1
             /\ w.status = 401
             /\ Len(w.body) = 1 /\ w.body[1].code = 401
        ELSE stage = "decode" /\ w.status # 401

\* C4 witness: a well-formed concat request without credentials on a protected route.
C4_Witness ==
    /\ ServedOp /\ protected /\ sreq.auth = "none" /\ route = "concat"
    /\ sreq.body = <<"{", "str", "}">>
    /\ w.status = 401

\* C5: an error that carries an RPC status is translated by the RPC branch,
\* whatever else it is: the status written is the one the table gives its
\* code, 500 for a code outside the table, and message and errors come from
\* the RPC status message.
C5_RPCStatusTable ==
    (ServedOp /\ nEncodeError = 1 /\ err.grpc) =>
        /\ err.code = "InvalidArgument" => w.status = 400
        /\ err.code = "NotFound" => w.status = 404
        /\ err.code = "PermissionDenied" => w.status = 403
        /\ err.code = "Unauthenticated" => w.status = 401
        /\ err.code \in {"Internal", "Unknown"} => w.status = 500
        /\ err.code = "Code(99)" => w.status = 500
        /\ Len(w.body) = 1
        /\ w.body[1].code = w.status
        /\ w.body[1].message = err.text
        /\ w.body[1].errs = <<[message |-> err.text]>>

\* C5 witness: a domain-typed error with RPC status NotFound was translated.
C5_Witness ==
    /\ ServedOp /\ nEncodeError = 1
    /\ err.grpc /\ err.kind = "domain" /\ err.code = "NotFound"
    /\ w.status = 404

IsJSONValue(body) == body # <<>> /\ body[1].type # "text"

\* C6 as stated: any 2xx reply is decoded as the typed payload, any other
\* reply goes to JSONErrorDecoder.
C6_Any2xxIsSuccess ==
    pc = "decoded" =>
        /\ Is2xx(resp.status) => cres[1] # "nil"
        /\ ~Is2xx(resp.status) => cres[1] = "nil" /\ cres[2] # NoErr

\* C6 amended: a reply with status 200 is decoded as the typed payload (a body
\* that is no JSON value gives the decoder's error); a reply with any other
\* status, 2xx or not, is not parsed as a payload and gives the error of
\* JSONErrorDecoder.
C6_Only200IsSuccess ==
    pc = "decoded" =>
        /\ resp.status = 200 =>
              /\ cres[1] # "nil"
              /\ ~IsJSONValue(resp.body) => cres[2].kind \in {"io.EOF", "*json.SyntaxError"}
              /\ (IsJSONValue(resp.body) /\ resp.body[1].type = "payload" /\ resp.body[1].op = call)
                     => cres = <<"typed", NoErr>>
        /\ resp.status # 200 =>
              /\ cres[1] = "nil"
              /\ cres[2] # NoErr
              /\ ~Contains(resp.ct, "application/json") => cres[2].text = "expected JSON formatted error"
              /\ (Contains(resp.ct, "application/json") /\ IsJSONValue(resp.body)
                    /\ resp.body[1].type = "wrapper")
                     => cres[2] = DomainErr(resp.body[1].message, <<>>)

\* C6 witness: a 201 reply with a well-formed payload was handed to JSONErrorDecoder.
C6_Witness ==
    /\ pc = "decoded" /\ resp.status = 201
    /\ resp.ct = successContentType
    /\ resp.body # <<>> /\ resp.body[1].type = "payload" /\ resp.body[1].op = call
    /\ cres[1] = "nil"

\* C7: an error envelope the server's httpEncodeError emitted is parsed by the
\* client's JSONErrorDecoder into an error that carries the envelope's
\* message, not into a JSON decoding failure.
C7_EnvelopeRoundTrip ==
    (pc = "decoded" /\ resp.from = "server" /\ nEncodeError = 1 /\ ~dirty) =>
        /\ cres[2].kind = "domain"
        /\ cres[2].text = resp.body[1].message

\* C8: the method and path a client call is sent with are bound by the
\* server's routing table to the endpoint of the same operation.
C8_ClientReachesEndpoint ==
    (pc = "done" /\ client.built) => route = call

HasScheme(instance) == \E i \in 1..Len(instance) : instance[i] = "://"

\* C9: an instance without a scheme is prefixed with one before parsing, also
\* when the host name begins with "http"; one with a scheme is left as is; a
\* string that does not parse gives a construction error and no client.
C9_BareHostGetsScheme ==
    pc \in {"built", "noclient"} =>
        /\ ~HasScheme(client.instance) => client.raw = <<"http", "://">> \o client.instance
        /\ HasScheme(client.instance) => client.raw = client.instance
        /\ ParseFails(client.raw) => client.err /\ ~client.built /\ pc = "noclient"

\* C10: a domain error without RPC status is answered with status and code
\* 500; with a non-empty message the envelope carries the error's own
\* message and sub-errors, in order, and no transport rule or string parsing
\* is applied.
C10_DomainErrorIs500 ==
    (ServedOp /\ nEncodeError = 1 /\ err.kind = "domain" /\ ~err.grpc) =>
        /\ w.status = 500
        /\ Len(w.body) = 1
        /\ w.body[1].type = "envelope"
        /\ w.body[1].code = 500
        /\ err.text # "" => w.body[1].message = err.text /\ w.body[1].errs = err.subs

\* C10 witness: a domain error with a message and two sub-errors was translated.
C10_Witness ==
    /\ ServedOp /\ nEncodeError = 1
    /\ err = DomainErr("bad input", <<[message |-> "e2"], [message |-> "e1"]>>)
    /\ w.status = 500
    /\ w.body[1].errs = <<[message |-> "e2"], [message |-> "e1"]>>

====
